---- MODULE Spec2Model ----
(***************************************************************************)
(* State-machine model of sigcheck.py (Volatility plugin SigCheck).        *)
(*                                                                         *)
(* The orchestrator SigCheck.calculate is a generator: the model has one   *)
(* action for the code run before the first module (Enumerate), one action *)
(* per loop iteration (a cached module, a module without a path, a module  *)
(* that is analysed) and one for the exhaustion of the loop (Finish).  The *)
(* `finally` clause of calculate is part of the action in which the        *)
(* generator ends (normally or by an exception).                           *)
(*                                                                         *)
(* What the memory image, pefile and openssl answer is the input of the    *)
(* analysis of one module; it is drawn nondeterministically (record inp).  *)
(*                                                                         *)
(* Three parts of the analysis are modelled on bytes, each with its own    *)
(* specification: calculate_pe_digest (SpecDigest), is_in_catalog with     *)
(* CERTIFICATE_REGEX (SpecCatalog), and extract_object followed by         *)
(* read_file_memory on a BytesIO (SpecPages).                              *)
(***************************************************************************)
EXTENDS Integers, Sequences, FiniteSets, TLC

VARIABLES
    mode,              \* _config.SYS / _config.DLL: "exe", "dll" or "sys"
    pslist,            \* tasks.pslist(addr_space): sequence of _EPROCESS
    drivers,           \* DriverIrp(...).calculate(): sequence of drivers
    modules,           \* local `modules` of calculate
    task,              \* local `task` of calculate: index in pslist, 0 = unbound
    idx,               \* position of `for module in modules`
    already_analyzed,  \* self.already_analyzed
    out,               \* triples yielded so far
    pc,                \* "start", "loop", "done" (returned), "raised"
    exc,               \* exception that left calculate, "none" otherwise
    fs,                \* files that exist among those the plugin creates
    cur,               \* what the environment answered for the last analysed module
    ev,                \* calls made while handling the last module
    lookups,           \* number of get_file_object calls per module path
    raw_data,          \* calculate_pe_digest: buffer P
    raw_data2,         \* calculate_pe_digest: buffer P'
    digest,            \* calculate_pe_digest(algorithm, P)
    digest2,           \* calculate_pe_digest(algorithm, P')
    catalog,           \* what lies at _config.catalog: [isdir, files]
    found,             \* is_in_catalog: the digests asked for and the answers
    snapshot,          \* the dumpfile DumpFiles yields: [name, type, present, pad]
    is_complete,       \* extract_object: first component of the pair returned
    of,                \* read_file_memory: the BytesIO, [buf, pos]
    assembled          \* read_file_memory: the buffer returned, <<"none">> before

vars == <<mode, pslist, drivers, modules, task, idx, already_analyzed, out, pc,
          exc, fs, cur, ev, lookups, raw_data, raw_data2, digest, digest2,
          catalog, found, snapshot, is_complete, of, assembled>>

orchVars == <<mode, pslist, drivers, modules, task, idx, already_analyzed, out,
              pc, exc, fs, cur, ev, lookups>>

digestVars == <<raw_data, raw_data2, digest, digest2>>

catalogVars == <<catalog, found>>

pageVars == <<snapshot, is_complete, of, assembled>>

-----------------------------------------------------------------------------
(* Bounds of the model *)

MaxTasks == 2
MaxMods == 1
MaxDrivers == 2
TailLen == 3
NumFill == 1

-----------------------------------------------------------------------------
(* class ReturnCode(Enum) *)

ReturnCode ==
    { "FILEOBJECT_ERROR", "PE_REBUILT_FAILED", "PE_CHECKSUM_MISMATCH",
      "PARTIAL_CONTENT_PE_DATA_ERROR", "SIGNED_FILE_NOT_VERIFIED",
      "CONTENT_SIGNED_NOT_VERIFIED", "PARTIAL_CONTENT_MAYBE_CATALOG_SIGNED",
      "PARTIAL_CONTENT_NOT_SIGNED",
      "AUTHENTICODE_SIGNATURE_MISMATCH_OR_INCORRECT_IMAGEBASE",
      "AUTHENTICODE_SIGNATURE_MISMATCH", "CATALOG_SIGNED", "MAYBE_CATALOG_SIGNED",
      "NOT_SIGNED_OR_INCORRECT_IMAGEBASE", "NOT_SIGNED", "NOT_PEB",
      "ALREADY_TERMINATED", "PARTIAL_CERTIFICATE", "PARTIAL_CONTENT_VERIFIED" }

\* ReturnCode.__int__
ReturnCodeInt(c) ==
    CASE c = "FILEOBJECT_ERROR" -> 1
      [] c = "PE_REBUILT_FAILED" -> 2
      [] c = "PE_CHECKSUM_MISMATCH" -> 3
      [] c = "PARTIAL_CONTENT_PE_DATA_ERROR" -> 4
      [] c = "SIGNED_FILE_NOT_VERIFIED" -> 5
      [] c = "CONTENT_SIGNED_NOT_VERIFIED" -> 6
      [] c = "PARTIAL_CONTENT_MAYBE_CATALOG_SIGNED" -> 7
      [] c = "PARTIAL_CONTENT_NOT_SIGNED" -> 8
      [] c = "AUTHENTICODE_SIGNATURE_MISMATCH_OR_INCORRECT_IMAGEBASE" -> 9
      [] c = "AUTHENTICODE_SIGNATURE_MISMATCH" -> 10
      [] c = "CATALOG_SIGNED" -> 11
      [] c = "MAYBE_CATALOG_SIGNED" -> 12
      [] c = "NOT_SIGNED_OR_INCORRECT_IMAGEBASE" -> 13
      [] c = "NOT_SIGNED" -> 14
      [] c = "NOT_PEB" -> 15
      [] c = "ALREADY_TERMINATED" -> 16
      [] c = "PARTIAL_CERTIFICATE" -> 17
      [] c = "PARTIAL_CONTENT_VERIFIED" -> 18

(* A value a validation returns: a member of ReturnCode (tag "ReturnCode"),  *)
(* or a Python str (tag "str"): text is the string, prefix the ReturnCode    *)
(* whose text is formatted in front of it ("" when there is none).           *)
Code(c) == [tag |-> "ReturnCode", prefix |-> "", text |-> c]
Str(s) == [tag |-> "str", prefix |-> "", text |-> s]
PrefixedStr(c, s) == [tag |-> "str", prefix |-> c, text |-> s]
NoResult == [tag |-> "none", prefix |-> "", text |-> ""]

-----------------------------------------------------------------------------
(* Outcome of a call: the value returned or the exception raised, the calls  *)
(* made (events) and the files written.                                      *)

Ev(op, buf, arg) == [op |-> op, buf |-> buf, arg |-> arg]

Ret(r, e, w) == [exc |-> "none", result |-> r, ev |-> e, wrote |-> w]
Raise(x, e, w) == [exc |-> x, result |-> NoResult, ev |-> e, wrote |-> w]

\* a log in which the calls of the callee come before those of the caller
AfterReversed(e, o) == [o EXCEPT !.ev = o.ev \o e]

\* the caller's own events e come first; an exception of the callee propagates
After(e, o) == [o EXCEPT !.ev = e \o o.ev]

-----------------------------------------------------------------------------
(* Temporary files *)

temp_filename == "mkstemp#1"
file_cert == "mkstemp#2"
file_signed_data == "mkstemp#3"
dummy_out == "/tmp/dummy.txt"

-----------------------------------------------------------------------------
(* What pefile reports about a buffer, and what openssl prints about its     *)
(* certificate.  pe = [has_cert, cert_nonempty, sig, digest_match,           *)
(* in_catalog, cms]:                                                         *)
(*   has_cert       Security directory Size and VirtualAddress both nonzero  *)
(*   cert_nonempty  the slice [VirtualAddress, VirtualAddress+Size) of the   *)
(*                  buffer is not empty                                      *)
(*   sig            [pattern, oid]: CERTIFICATE_REGEX matches, and the OID   *)
(*   digest_match   hash_file == digest                                      *)
(*   in_catalog     some .cat entry equals the sha1 digest                   *)
(*   cms            [objid, line_matches, stderr_tail, last_line]            *)

OID_md5 == "2a864886f70d0205"
OID_sha1 == "2b0e03021a"
OID_sha256 == "608648016503040201"
OID_sha384 == "608648016503040202"

\* output[0].upper() + output[1:] of verify_signature
Capitalize(s) ==
    CASE s = "unable to get local issuer certificate"
            -> "Unable to get local issuer certificate"
      [] OTHER -> s

(* verify_signature: writes the certificate, runs `openssl asn1parse`; when  *)
(* the SpcPeImageData OID is listed, parses the line two above it, writes    *)
(* the signed content and runs `openssl smime -verify ... -out               *)
(* /tmp/dummy.txt`, returning the capitalised tail of its stderr; otherwise  *)
(* returns the last non-empty line asn1parse printed.                        *)
verify_signature(buf, cms) ==
    LET e == <<Ev("verify_signature", buf, "")>> IN
    IF cms.objid
    THEN IF ~cms.line_matches
         THEN Raise("AttributeError", e, {file_cert})
         ELSE IF cms.stderr_tail = ""
              THEN Raise("IndexError", e, {file_cert, file_signed_data, dummy_out})
              ELSE Ret(Str(Capitalize(cms.stderr_tail)), e,
                       {file_cert, file_signed_data, dummy_out})
    ELSE IF cms.last_line = ""
         THEN Raise("IndexError", e, {file_cert})
         ELSE Ret(Str(cms.last_line), e, {file_cert})

\* has_cert
has_cert(pe) == pe.has_cert

\* extract_cert: None without a certificate, else the slice of the buffer
extract_cert(pe) ==
    IF has_cert(pe) THEN (IF pe.cert_nonempty THEN "bytes" ELSE "") ELSE "None"

\* truth value of `if cert:`
Truthy(cert) == cert = "bytes"

(* get_digest_from_signature: (algorithm, digest) for the three known OIDs,  *)
(* (None, 0) when the pattern does not match, and None (no return statement  *)
(* is reached) when it matches with another OID.                             *)
get_digest_from_signature(sig) ==
    IF sig.pattern
    THEN IF sig.oid = OID_md5 THEN [isNone |-> FALSE, algorithm |-> "md5"]
         ELSE IF sig.oid = OID_sha1 THEN [isNone |-> FALSE, algorithm |-> "sha1"]
         ELSE IF sig.oid = OID_sha256 THEN [isNone |-> FALSE, algorithm |-> "sha256"]
         ELSE [isNone |-> TRUE, algorithm |-> "None"]
    ELSE [isNone |-> FALSE, algorithm |-> "None"]

(* verify_pe *)
verify_pe(buf, pe) ==
    LET e0 == <<Ev("verify_pe", buf, "")>>
        cert == extract_cert(pe)
    IN
    IF Truthy(cert)
    THEN LET d == get_digest_from_signature(pe.sig)
             e1 == e0 \o <<Ev("get_digest_from_signature", buf, "")>>
         IN
         IF d.isNone
         THEN Raise("TypeError", e1, {})
         ELSE IF d.algorithm # "None"
              THEN LET e2 == e1 \o <<Ev("calculate_pe_digest", buf, d.algorithm)>> IN
                   IF pe.digest_match
                   THEN After(e2, verify_signature(buf, pe.cms))
                   ELSE Ret(Code("AUTHENTICODE_SIGNATURE_MISMATCH"), e2, {})
              ELSE Ret(Code("PARTIAL_CERTIFICATE"), e1, {})
    ELSE LET e1 == e0 \o <<Ev("calculate_pe_digest", buf, "sha1"),
                           Ev("is_in_catalog", buf, "")>>
         IN
         IF pe.in_catalog
         THEN Ret(Code("CATALOG_SIGNED"), e1, {})
         ELSE Ret(Code("NOT_SIGNED"), e1, {})

(* validate_data_section *)
validate_data_section(content) ==
    IF ~content.parse_ok
    THEN Raise("PEFormatError", <<>>, {})
    ELSE
    LET pe == content.pe
        cert == extract_cert(pe)
    IN
    IF content.checksum_ok
    THEN LET e0 == <<Ev("verify_checksum", 0, "ok")>> IN
         IF Truthy(cert)
         THEN LET d == get_digest_from_signature(pe.sig)
                  e1 == e0 \o <<Ev("get_digest_from_signature", 0, "")>>
                  e2 == e1 \o <<Ev("calculate_pe_digest", 0, d.algorithm)>>
              IN
              IF d.isNone
              THEN Raise("TypeError", e1, {})
              ELSE IF d.algorithm = "None"
                   THEN Raise("TypeError", e2, {})
                   ELSE IF pe.digest_match
                        THEN After(e2, verify_signature(0, pe.cms))
                        ELSE Ret(Code("AUTHENTICODE_SIGNATURE_MISMATCH"), e2, {})
         ELSE LET e1 == e0 \o <<Ev("calculate_pe_digest", 0, "sha1"),
                                Ev("is_in_catalog", 0, "")>>
              IN
              IF pe.in_catalog
              THEN Ret(Code("CATALOG_SIGNED"), e1, {})
              ELSE Ret(Code("NOT_SIGNED"), e1, {})
    ELSE Ret(Code("PE_CHECKSUM_MISMATCH"), <<Ev("verify_checksum", 0, "fail")>>, {})

-----------------------------------------------------------------------------
(* validate_image_section *)

(* addresses.json for the profile: candidate image bases per file type, in   *)
(* table order.  Image bases are multiples of 0x10000 and are counted in     *)
(* that unit: 64 is 0x400000, 81920 is 0x140000000, 256 is 0x1000000, 98304  *)
(* is 0x180000000, 4096 is 0x10000000 and 1 is 0x10000.                      *)
frequent_addresses ==
    [exe |-> <<64, 81920, 256>>,
     dll |-> <<98304, 4096>>,
     sys |-> <<1>>]

\* 0xffffffff in units of 0x10000 (a multiple of 0x10000 exceeds one iff it exceeds the other)
MaxBase32 == 65535

\* exceptions caught per candidate
RelocationErrors == {"AttributeError", "struct.error"}

(* the `for new_imagebase in ...` loop from candidate i on; e and w are the  *)
(* calls made and the files written before                                   *)
RECURSIVE RebaseLoop(_, _, _, _, _)
RebaseLoop(content, bases, i, e, w) ==
    IF i > Len(bases)
    THEN Ret(Code("PE_REBUILT_FAILED"), e, w)
    ELSE IF content.is32 /\ bases[i] > MaxBase32
    THEN RebaseLoop(content, bases, i + 1, e, w)
    ELSE LET c == content.cand[i]
             e1 == e \o <<Ev("relocate_image", i, c.reloc)>>
         IN
         IF c.reloc # "ok"
         THEN RebaseLoop(content, bases, i + 1, e1, w)
         ELSE IF c.checksum_ok
              THEN LET o == verify_pe(i, content.pe)
                       e2 == e1 \o <<Ev("verify_checksum", i, "ok")>>
                   IN
                   IF o.exc \in RelocationErrors
                   THEN RebaseLoop(content, bases, i + 1, e2 \o o.ev, w \cup o.wrote)
                   ELSE [o EXCEPT !.ev = e2 \o o.ev, !.wrote = w \cup o.wrote]
              ELSE RebaseLoop(content, bases, i + 1,
                              e1 \o <<Ev("verify_checksum", i, "fail")>>, w)

validate_image_section(content, file_type) ==
    IF ~content.parse_ok
    THEN Raise("PEFormatError", <<>>, {})
    ELSE IF content.checksum_ok
    THEN After(<<Ev("verify_checksum", 0, "ok")>>, verify_pe(0, content.pe))
    ELSE LET e0 == <<Ev("verify_checksum", 0, "fail")>> IN
         IF file_type \notin DOMAIN frequent_addresses
         THEN Raise("KeyError", e0, {})
         ELSE RebaseLoop(content, frequent_addresses[file_type], 1, e0, {})

-----------------------------------------------------------------------------
(* File objects.  A dumpfile of DumpFiles is [name, type, present, pad]:     *)
(* present / pad tell whether the lists of resident / missing pages are not  *)
(* empty; a SharedCacheMap dumpfile has no 'present' key.                    *)

NoFileObject == [name |-> "", type |-> "None", present |-> FALSE, pad |-> FALSE]

(* extract_object: the first dumpfile with resident pages decides; a         *)
(* SharedCacheMap raises KeyError, which is logged and skipped.              *)
RECURSIVE extract_object_from(_, _)
extract_object_from(dump, i) ==
    IF i > Len(dump)
    THEN [is_complete |-> FALSE, file_object |-> NoFileObject]
    ELSE LET dumpfile == dump[i] IN
         IF dumpfile.type = "SharedCacheMap"
         THEN extract_object_from(dump, i + 1)
         ELSE IF dumpfile.present /\ ~dumpfile.pad
         THEN [is_complete |-> TRUE, file_object |-> dumpfile]
         ELSE IF dumpfile.present
         THEN [is_complete |-> FALSE, file_object |-> dumpfile]
         ELSE extract_object_from(dump, i + 1)

extract_object(dump) == extract_object_from(dump, 1)

(* get_file_object: inp.match tells whether the normalized path matches the  *)
(* name of a file object of self.files, inp.dump is what DumpFiles yields    *)
(* for the first such file object.                                           *)
get_file_object(filename, inp) ==
    IF filename # "" /\ inp.match
    THEN extract_object(inp.dump)
    ELSE [is_complete |-> FALSE, file_object |-> NoFileObject]

\* get_pe_type: file_object['name'].split('.')[-1].lower()
get_pe_type(file_object) ==
    CASE file_object.name = "\\Device\\HarddiskVolume1\\Windows\\notepad.exe" -> "exe"
      [] file_object.name = "\\Device\\HarddiskVolume1\\Windows\\System32\\ntdll.dll" -> "dll"
      [] file_object.name = "\\Device\\HarddiskVolume1\\Windows\\System32\\drivers\\tcpip.sys" -> "sys"
      [] file_object.name = "\\Device\\HarddiskVolume1\\Program Files\\App\\GRID.OCX" -> "ocx"
      [] file_object.name = "\\eviceHarddiskVolume1\\indows\\x.exe" -> "exe"
      [] OTHER -> file_object.name

(* re.match(r'\Device\HarddiskVolume[0-9]\Windows', name): in the pattern    *)
(* \D is a non-digit, \H the letter H and \W a non-word character, so a name *)
(* that starts with \Device\HarddiskVolume1\Windows does not match.          *)
MatchesWindowsPattern(name) == name = "\\eviceHarddiskVolume1\\indows\\x.exe"

(* validate_file *)
validate_file(file_object, content) ==
    LET e == <<Ev("read_file_memory", 0, "")>>
        file_type == get_pe_type(file_object)
    IN
    IF file_object.type = "ImageSectionObject"
    THEN After(e, validate_image_section(content, file_type))
    ELSE IF file_object.type = "DataSectionObject"
    THEN After(e, validate_data_section(content))
    ELSE Ret(NoResult, e, {})

(* validate_partial_file *)
validate_partial_file(file_object, content) ==
    IF file_object # NoFileObject
    THEN LET e == <<Ev("read_file_memory", 0, "")>>
             pe == content.pe
         IN
         IF ~content.parse_ok
         THEN Ret(Code("PARTIAL_CONTENT_PE_DATA_ERROR"), e, {})
         ELSE IF has_cert(pe)
         THEN IF file_object.type = "DataSectionObject"
              THEN IF Truthy(extract_cert(pe))
                   THEN LET o == verify_signature(0, pe.cms) IN
                        IF o.exc = "none"
                        THEN Ret(PrefixedStr("PARTIAL_CONTENT_VERIFIED", o.result.text),
                                 e \o o.ev, o.wrote)
                        ELSE After(e, o)
                   ELSE Ret(Code("CONTENT_SIGNED_NOT_VERIFIED"), e, {})
              ELSE IF file_object.type = "ImageSectionObject"
              THEN Ret(Code("CONTENT_SIGNED_NOT_VERIFIED"), e, {})
              ELSE Ret(NoResult, e, {})
         ELSE IF MatchesWindowsPattern(file_object.name)
              THEN Ret(Code("PARTIAL_CONTENT_MAYBE_CATALOG_SIGNED"), e, {})
              ELSE Ret(Code("PARTIAL_CONTENT_NOT_SIGNED"), e, {})
    ELSE Ret(Code("FILEOBJECT_ERROR"), <<>>, {})

(* the body of `else: if module_path:` of calculate for one module           *)
analyze(module_path, inp) ==
    LET fo == get_file_object(module_path, inp)
        e == <<Ev("get_file_object", 0, "")>>
    IN
    IF fo.is_complete
    THEN After(e, validate_file(fo.file_object, inp.content))
    ELSE After(e, validate_partial_file(fo.file_object, inp.content))

-----------------------------------------------------------------------------
(* Inputs of the analysis of one module *)

SeqsUpTo(S, n) == UNION {[1..k -> S] : k \in 0..n}

DefCms == [objid |-> FALSE, line_matches |-> FALSE, stderr_tail |-> "", last_line |-> ""]

CmsOutcomes ==
    { [objid |-> TRUE, line_matches |-> TRUE,
       stderr_tail |-> "Verification successful", last_line |-> ""],
      [objid |-> TRUE, line_matches |-> TRUE,
       stderr_tail |-> "unable to get local issuer certificate", last_line |-> ""],
      [objid |-> TRUE, line_matches |-> TRUE, stderr_tail |-> "", last_line |-> ""],
      [objid |-> TRUE, line_matches |-> FALSE, stderr_tail |-> "", last_line |-> ""],
      [objid |-> FALSE, line_matches |-> FALSE, stderr_tail |-> "",
       last_line |-> "    0:d=0  hl=2 l=   0 prim: EOC"],
      DefCms }

DefSig == [pattern |-> FALSE, oid |-> ""]

Sigs == {DefSig} \cup {[pattern |-> TRUE, oid |-> o] :
                           o \in {OID_md5, OID_sha1, OID_sha256, OID_sha384}}

MkPE(hc, ne, sg, dm, ic, cm) ==
    [has_cert |-> hc, cert_nonempty |-> ne, sig |-> sg, digest_match |-> dm,
     in_catalog |-> ic, cms |-> cm]

DefPE == MkPE(FALSE, FALSE, DefSig, FALSE, FALSE, DefCms)

\* buffers without a certificate, or whose certificate slice is empty
UnsignedPEs == {MkPE(hc, FALSE, DefSig, FALSE, ic, DefCms) : hc \in BOOLEAN, ic \in BOOLEAN}

\* buffers with certificate bytes
SignedPEs ==
    {MkPE(TRUE, TRUE, sg, FALSE, FALSE, DefCms) : sg \in Sigs}
    \cup {MkPE(TRUE, TRUE, sg, TRUE, FALSE, cm) : sg \in Sigs \ {DefSig}, cm \in CmsOutcomes}

PEs == UnsignedPEs \cup SignedPEs

\* what a partially resident buffer shows: the digest is never compared
PartialPEs ==
    UnsignedPEs \cup {MkPE(TRUE, TRUE, DefSig, FALSE, FALSE, cm) : cm \in CmsOutcomes}

CandOutcomes ==
    { [reloc |-> "ok", checksum_ok |-> TRUE], [reloc |-> "ok", checksum_ok |-> FALSE],
      [reloc |-> "AttributeError", checksum_ok |-> FALSE],
      [reloc |-> "struct.error", checksum_ok |-> FALSE] }

MkContent(po, b32, cs, cd, pe) ==
    [parse_ok |-> po, is32 |-> b32, checksum_ok |-> cs, cand |-> cd, pe |-> pe]

DefContent == MkContent(FALSE, FALSE, FALSE, <<>>, DefPE)

FileNames ==
    { "\\Device\\HarddiskVolume1\\Windows\\notepad.exe",
      "\\Device\\HarddiskVolume1\\Windows\\System32\\ntdll.dll",
      "\\Device\\HarddiskVolume1\\Windows\\System32\\drivers\\tcpip.sys",
      "\\Device\\HarddiskVolume1\\Program Files\\App\\GRID.OCX" }

DumpFile(n, t, pr, pd) == [name |-> n, type |-> t, present |-> pr, pad |-> pd]

SharedCacheMap == DumpFile("\\Device\\HarddiskVolume1\\Windows\\notepad.exe",
                           "SharedCacheMap", FALSE, FALSE)

MkInput(m, d, c) == [match |-> m, dump |-> d, content |-> c]

NoInput == MkInput(FALSE, <<>>, DefContent)

\* no usable file object
NoFileInputs ==
    { NoInput, MkInput(TRUE, <<>>, DefContent), MkInput(TRUE, <<SharedCacheMap>>, DefContent),
      MkInput(TRUE, <<DumpFile("\\Device\\HarddiskVolume1\\Windows\\notepad.exe",
                               "DataSectionObject", FALSE, TRUE)>>, DefContent) }

\* some pages missing
PartialContents ==
    {DefContent} \cup {MkContent(TRUE, FALSE, FALSE, <<>>, pe) : pe \in PartialPEs}

PartialInputs ==
    {MkInput(TRUE, <<DumpFile(n, t, TRUE, TRUE)>>, c) :
        n \in {"\\Device\\HarddiskVolume1\\Windows\\notepad.exe",
               "\\eviceHarddiskVolume1\\indows\\x.exe"},
        t \in {"ImageSectionObject", "DataSectionObject"},
        c \in PartialContents}
    \cup {MkInput(TRUE, <<SharedCacheMap,
                          DumpFile("\\Device\\HarddiskVolume1\\Windows\\notepad.exe",
                                   "DataSectionObject", TRUE, TRUE)>>, c) :
             c \in PartialContents}

\* fully resident DataSectionObject
DataContents ==
    {DefContent, MkContent(TRUE, FALSE, FALSE, <<>>, DefPE)}
    \cup {MkContent(TRUE, FALSE, TRUE, <<>>, pe) : pe \in PEs}

DataInputs ==
    {MkInput(TRUE, <<DumpFile("\\Device\\HarddiskVolume1\\Windows\\notepad.exe",
                              "DataSectionObject", TRUE, FALSE)>>, c) : c \in DataContents}

\* number of candidate bases tried for a file of this name
NumCand(n) ==
    LET t == get_pe_type([name |-> n]) IN
    IF t \in DOMAIN frequent_addresses THEN Len(frequent_addresses[t]) ELSE 0

\* fully resident ImageSectionObject
ImageContents(n) ==
    {DefContent}
    \cup {MkContent(TRUE, b, TRUE, <<>>, pe) : b \in BOOLEAN, pe \in PEs}
    \cup {MkContent(TRUE, b, FALSE, cd, pe) :
             b \in BOOLEAN, cd \in [1..NumCand(n) -> CandOutcomes], pe \in PEs}

ImageInputs ==
    UNION {{MkInput(TRUE, <<DumpFile(n, "ImageSectionObject", TRUE, FALSE)>>, c) :
               c \in ImageContents(n)} : n \in FileNames}

Inputs == NoFileInputs \cup PartialInputs \cup DataInputs \cup ImageInputs

(* The inputs drawn while a whole module list is processed: one of each kind *)
(* of outcome (a ReturnCode, a verifier string, an exception).               *)
CmsSuccess == [objid |-> TRUE, line_matches |-> TRUE,
               stderr_tail |-> "Verification successful", last_line |-> ""]

Sha1Sig == [pattern |-> TRUE, oid |-> OID_sha1]

NotepadData(pr, pd) == DumpFile("\\Device\\HarddiskVolume1\\Windows\\notepad.exe",
                                "DataSectionObject", pr, pd)

NotepadImage == DumpFile("\\Device\\HarddiskVolume1\\Windows\\notepad.exe",
                         "ImageSectionObject", TRUE, FALSE)

OrchInputs ==
    { NoInput,
      MkInput(TRUE, <<NotepadData(TRUE, TRUE)>>,
              MkContent(TRUE, FALSE, FALSE, <<>>,
                        MkPE(TRUE, TRUE, DefSig, FALSE, FALSE, CmsSuccess))),
      MkInput(TRUE, <<NotepadData(TRUE, FALSE)>>, DefContent),
      MkInput(TRUE, <<NotepadData(TRUE, FALSE)>>,
              MkContent(TRUE, FALSE, TRUE, <<>>,
                        MkPE(TRUE, TRUE, Sha1Sig, TRUE, FALSE, CmsSuccess))),
      MkInput(TRUE, <<NotepadData(TRUE, FALSE)>>,
              MkContent(TRUE, FALSE, TRUE, <<>>,
                        MkPE(FALSE, FALSE, DefSig, FALSE, TRUE, DefCms))),
      MkInput(TRUE, <<NotepadImage>>,
              MkContent(TRUE, TRUE, FALSE,
                        << [reloc |-> "AttributeError", checksum_ok |-> FALSE],
                           [reloc |-> "ok", checksum_ok |-> FALSE],
                           [reloc |-> "ok", checksum_ok |-> TRUE] >>,
                        MkPE(FALSE, FALSE, DefSig, FALSE, FALSE, DefCms))) }

-----------------------------------------------------------------------------
(* Module enumeration *)

ModulePool ==
    { [FullDllName |-> "", BaseDllName |-> ""],
      [FullDllName |-> "C:\\Windows\\notepad.exe", BaseDllName |-> "notepad.exe"],
      [FullDllName |-> "C:\\Windows\\System32\\ntdll.dll", BaseDllName |-> "ntdll.dll"] }

(* an _EPROCESS: mods is what task.get_load_modules() yields, nothing when   *)
(* the PEB cannot be read                                                    *)
TaskDescs ==
    {[Peb |-> FALSE, ExitTime |-> x, mods |-> <<>>] : x \in BOOLEAN}
    \cup {[Peb |-> TRUE, ExitTime |-> x, mods |-> ms] :
             x \in BOOLEAN, ms \in SeqsUpTo(ModulePool, MaxMods)}

MkTask(i, d) ==
    [UniqueProcessId |-> 4 * i, ImageFileName |-> "proc" \o ToString(i) \o ".exe",
     Peb |-> d.Peb, ExitTime |-> d.ExitTime, mods |-> d.mods]

PsLists == {[i \in DOMAIN ds |-> MkTask(i, ds[i])] : ds \in SeqsUpTo(TaskDescs, MaxTasks)}

(* a driver of DriverIrp with the module tasks.find_module finds for it      *)
DriverPool ==
    { [owning_module |-> FALSE, FullDllName |-> "", BaseDllName |-> ""],
      [owning_module |-> TRUE, FullDllName |-> "", BaseDllName |-> ""],
      [owning_module |-> TRUE,
       FullDllName |-> "\\SystemRoot\\System32\\drivers\\tcpip.sys",
       BaseDllName |-> "tcpip.sys"] }

MkModule(p, n, i) == [path |-> p, name |-> n, pid |-> i]

(* get_pe_modules *)
get_pe_modules(t, dlls) ==
    IF dlls
    THEN [k \in DOMAIN t.mods |->
             MkModule(t.mods[k].FullDllName, t.mods[k].BaseDllName, t.UniqueProcessId)]
    ELSE IF t.Peb /\ Len(t.mods) > 0
         THEN <<MkModule(t.mods[1].FullDllName, t.mods[1].BaseDllName, t.UniqueProcessId)>>
         ELSE <<>>

(* get_sys_modules (the pid '0' of a driver is the number 0 here) *)
get_sys_modules(ds) ==
    [k \in DOMAIN ds |->
        IF ds[k].owning_module
        THEN MkModule(ds[k].FullDllName, ds[k].BaseDllName, 0)
        ELSE MkModule("UNKNOWN", "UNKNOWN", 0)]

\* modules += get_pe_modules(task, ...) for the tasks from i on
RECURSIVE ModulesFrom(_, _, _)
ModulesFrom(ps, i, dlls) ==
    IF i > Len(ps) THEN <<>>
    ELSE get_pe_modules(ps[i], dlls) \o ModulesFrom(ps, i + 1, dlls)

-----------------------------------------------------------------------------
(* calculate *)

\* clean_workin_dir
clean_workin_dir(files) == files \ {temp_filename, file_cert, file_signed_data}

\* a yield that puts the triple in front of those yielded before
YieldInFront(o, t) == <<t>> \o o

\* yield
Yield(o, t) == Append(o, t)

\* a membership test that never finds the path
InCacheNever(module_path, cache) == FALSE

\* module_path in self.already_analyzed
InCache(module_path, cache) == module_path \in DOMAIN cache

\* self.already_analyzed[module_path] = result
CacheStore(cache, module_path, result) ==
    [p \in DOMAIN cache \cup {module_path} |->
        IF p = module_path THEN result ELSE cache[p]]

EmptyCache == [p \in {} |-> NoResult]

\* BytesIO()
EmptyBytesIO == [buf |-> <<>>, pos |-> 0]

\* no catalog directory is read and no file object is dumped
CatalogIdle == catalog = [isdir |-> FALSE, files |-> {}] /\ found = <<>>

PagesIdle ==
    /\ snapshot = [name |-> "", type |-> "None", present |-> <<>>, pad |-> {}]
    /\ is_complete = FALSE
    /\ of = EmptyBytesIO
    /\ assembled = <<"none">>

Init ==
    /\ mode \in {"exe", "dll", "sys"}
    /\ pslist \in (IF mode = "sys" THEN {<<>>} ELSE PsLists)
    /\ drivers \in (IF mode = "sys" THEN SeqsUpTo(DriverPool, MaxDrivers) ELSE {<<>>})
    /\ modules = <<>>
    /\ task = 0
    /\ idx = 1
    /\ already_analyzed = EmptyCache
    /\ out = <<>>
    /\ pc = "start"
    /\ exc = "none"
    /\ fs = {temp_filename, file_cert, file_signed_data}
    /\ cur = NoInput
    /\ ev = <<>>
    /\ lookups = <<>>
    /\ raw_data = <<>>
    /\ raw_data2 = <<>>
    /\ digest = <<>>
    /\ digest2 = <<>>
    /\ CatalogIdle
    /\ PagesIdle

(* calculate up to the loop over the modules; without modules the generator *)
(* ends at once and the finally clause runs                                 *)
Enumerate ==
    /\ pc = "start"
    /\ modules' = IF mode = "sys" THEN get_sys_modules(drivers)
                  ELSE ModulesFrom(pslist, 1, mode = "dll")
    /\ task' = IF mode = "sys" THEN 0 ELSE Len(pslist)
    /\ IF modules' = <<>>
       THEN pc' = "done" /\ fs' = clean_workin_dir(fs)
       ELSE pc' = "loop" /\ fs' = fs
    /\ UNCHANGED <<mode, pslist, drivers, idx, already_analyzed, out, exc, cur, ev,
                   lookups>>
    /\ UNCHANGED digestVars
    /\ UNCHANGED catalogVars
    /\ UNCHANGED pageVars

(* one iteration for a module whose path is in the cache *)
StepCached ==
    /\ pc = "loop"
    /\ idx <= Len(modules)
    /\ InCache(modules[idx].path, already_analyzed)
    /\ out' = Yield(out, [name |-> modules[idx].name, pid |-> modules[idx].pid,
                          result |-> already_analyzed[modules[idx].path]])
    /\ idx' = idx + 1
    /\ cur' = NoInput
    /\ ev' = <<>>
    /\ UNCHANGED <<mode, pslist, drivers, modules, task, already_analyzed, pc, exc, fs,
                   lookups>>
    /\ UNCHANGED digestVars
    /\ UNCHANGED catalogVars
    /\ UNCHANGED pageVars

(* one iteration for a module without a path: `task` is the variable of the *)
(* enumeration loop, unbound when the drivers were enumerated                *)
StepNoPath ==
    /\ pc = "loop"
    /\ idx <= Len(modules)
    /\ ~InCache(modules[idx].path, already_analyzed)
    /\ modules[idx].path = ""
    /\ cur' = NoInput
    /\ ev' = <<>>
    /\ IF task = 0
       THEN /\ pc' = "raised"
            /\ exc' = "UnboundLocalError"
            /\ fs' = clean_workin_dir(fs)
            /\ UNCHANGED <<out, idx>>
       ELSE /\ out' = Yield(out, [name |-> pslist[task].ImageFileName,
                                  pid |-> modules[idx].pid,
                                  result |-> IF pslist[task].ExitTime
                                             THEN Code("ALREADY_TERMINATED")
                                             ELSE Code("NOT_PEB")])
            /\ idx' = idx + 1
            /\ UNCHANGED <<pc, exc, fs>>
    /\ UNCHANGED <<mode, pslist, drivers, modules, task, already_analyzed, lookups>>
    /\ UNCHANGED digestVars
    /\ UNCHANGED catalogVars
    /\ UNCHANGED pageVars

(* one iteration for a module that is analysed; an exception ends the       *)
(* generator through the finally clause                                     *)
AnalyzeModule(S) ==
    /\ pc = "loop"
    /\ idx <= Len(modules)
    /\ ~InCache(modules[idx].path, already_analyzed)
    /\ modules[idx].path # ""
    /\ \E inp \in S :
          LET o == analyze(modules[idx].path, inp) IN
          /\ cur' = inp
          /\ ev' = o.ev
          /\ lookups' = Append(lookups, modules[idx].path)
          /\ IF o.exc = "none"
             THEN /\ already_analyzed' =
                        CacheStore(already_analyzed, modules[idx].path, o.result)
                  /\ out' = Yield(out, [name |-> modules[idx].name,
                                        pid |-> modules[idx].pid,
                                        result |-> o.result])
                  /\ idx' = idx + 1
                  /\ fs' = fs \cup o.wrote
                  /\ UNCHANGED <<pc, exc>>
             ELSE /\ pc' = "raised"
                  /\ exc' = o.exc
                  /\ fs' = clean_workin_dir(fs \cup o.wrote)
                  /\ UNCHANGED <<already_analyzed, out, idx>>
    /\ UNCHANGED <<mode, pslist, drivers, modules, task>>
    /\ UNCHANGED digestVars
    /\ UNCHANGED catalogVars
    /\ UNCHANGED pageVars

(* the loop is exhausted: finally, then the generator returns *)
Finish ==
    /\ pc = "loop"
    /\ idx > Len(modules)
    /\ pc' = "done"
    /\ fs' = clean_workin_dir(fs)
    /\ UNCHANGED <<mode, pslist, drivers, modules, task, idx, already_analyzed, out,
                   exc, cur, ev, lookups>>
    /\ UNCHANGED digestVars
    /\ UNCHANGED catalogVars
    /\ UNCHANGED pageVars

Next ==
    \/ Enumerate
    \/ StepCached
    \/ StepNoPath
    \/ AnalyzeModule(OrchInputs)
    \/ Finish

Spec == Init /\ [][Next]_vars

(* One process with one module, analysed under every input *)
InitValidate ==
    /\ Init
    /\ mode = "exe"
    /\ pslist = <<MkTask(1, [Peb |-> TRUE, ExitTime |-> FALSE,
                             mods |-> <<[FullDllName |-> "C:\\Windows\\notepad.exe",
                                         BaseDllName |-> "notepad.exe"]>>])>>

NextValidate ==
    \/ Enumerate
    \/ AnalyzeModule(Inputs)
    \/ Finish

SpecValidate == InitValidate /\ [][NextValidate]_vars

-----------------------------------------------------------------------------
(* Byte buffers.  A buffer is a sequence of bytes; the byte at offset k is   *)
(* element k + 1.                                                            *)

Min(a, b) == IF a < b THEN a ELSE b

Max(a, b) == IF a > b THEN a ELSE b

\* Python s[a:b] for 0 <= a, 0 <= b
Slice(s, a, b) ==
    LET lo == Min(a, Len(s))
        hi == Min(b, Len(s))
    IN IF hi <= lo THEN <<>> ELSE SubSeq(s, lo + 1, hi)

\* Python s[a:]
SliceFrom(s, a) == Slice(s, a, Len(s))

\* struct.unpack('<I', bytes_)[0]; struct.error unless there are 4 bytes
unpack_dword(bytes_) ==
    IF Len(bytes_) = 4
    THEN [exc |-> "none",
          v |-> bytes_[1] + 256 * bytes_[2] + 65536 * bytes_[3] + 16777216 * bytes_[4]]
    ELSE [exc |-> "struct.error", v |-> 0]

MZ == <<77, 90>>
PE00 == <<80, 69, 0, 0>>
Magic32 == <<11, 1>>
Magic64 == <<11, 2>>

E_LFANEW == 60
MAGIC_OFF == 24
CHECKSUM_OFF == 88
SECDIR_OFF_32 == 152
SECDIR_OFF_64 == 168

(* get_nt_header_addr: the offset, or None (exc "None") when the buffer does *)
(* not start with MZ or PE\0\0 is not at the offset                          *)
get_nt_header_addr(pe_data) ==
    IF Slice(pe_data, 0, 2) = MZ
    THEN LET a == unpack_dword(Slice(pe_data, E_LFANEW, E_LFANEW + 4)) IN
         IF a.exc # "none" THEN a
         ELSE IF Slice(pe_data, a.v, a.v + 4) = PE00
              THEN a
              ELSE [exc |-> "None", v |-> 0]
    ELSE [exc |-> "None", v |-> 0]

\* is_32bits / is_64bits, given the NtHeader offset
is_32bits(content, nt) == Slice(content, nt + MAGIC_OFF, nt + MAGIC_OFF + 2) = Magic32
is_64bits(content, nt) == Slice(content, nt + MAGIC_OFF, nt + MAGIC_OFF + 2) = Magic64

(* get_pe_certificate_attibutes, given the NtHeader offset: the offset of    *)
(* the Security directory entry, its VirtualAddress and its Size             *)
get_pe_certificate_attibutes(pe_data, nt) ==
    IF ~is_32bits(pe_data, nt) /\ ~is_64bits(pe_data, nt)
    THEN [exc |-> "UnboundLocalError", table |-> 0, va |-> 0, size |-> 0]
    ELSE LET certificate_table_addr ==
                 IF is_32bits(pe_data, nt) THEN nt + SECDIR_OFF_32 ELSE nt + SECDIR_OFF_64
             va == unpack_dword(Slice(pe_data, certificate_table_addr,
                                      certificate_table_addr + 4))
             sz == unpack_dword(Slice(pe_data, certificate_table_addr + 4,
                                      certificate_table_addr + 8))
         IN
         IF va.exc # "none" \/ sz.exc # "none"
         THEN [exc |-> "struct.error", table |-> 0, va |-> 0, size |-> 0]
         ELSE [exc |-> "none", table |-> certificate_table_addr, va |-> va.v, size |-> sz.v]

\* (certificate_virtual_addr and certificate_size) != 0x0
CertPresent(certificate_virtual_addr, certificate_size) ==
    certificate_virtual_addr # 0 /\ certificate_size # 0

\* the hashed bytes when the CheckSum field is not skipped
HashedBytesWithCheckSum(raw, checksum_addr, a) ==
    Slice(raw, 0, a.table)
    \o (IF CertPresent(a.va, a.size)
        THEN Slice(raw, a.table + 8, a.va) \o SliceFrom(raw, a.va + a.size)
        ELSE SliceFrom(raw, a.table + 8))

\* the bytes of raw_data given to the hash function
HashedBytes(raw, checksum_addr, a) ==
    Slice(raw, 0, checksum_addr) \o Slice(raw, checksum_addr + 4, a.table)
    \o (IF CertPresent(a.va, a.size)
        THEN Slice(raw, a.table + 8, a.va) \o SliceFrom(raw, a.va + a.size)
        ELSE SliceFrom(raw, a.table + 8))

(* calculate_pe_digest.  The hash function is taken to be free of            *)
(* collisions: the digest is the algorithm together with the bytes hashed.   *)
calculate_pe_digest(algorithm, raw) ==
    LET nt == get_nt_header_addr(raw) IN
    IF nt.exc = "None"
    THEN [exc |-> "TypeError", algorithm |-> algorithm, data |-> <<>>]
    ELSE IF nt.exc # "none"
    THEN [exc |-> nt.exc, algorithm |-> algorithm, data |-> <<>>]
    ELSE LET a == get_pe_certificate_attibutes(raw, nt.v) IN
         IF a.exc # "none"
         THEN [exc |-> a.exc, algorithm |-> algorithm, data |-> <<>>]
         ELSE [exc |-> "none", algorithm |-> algorithm,
               data |-> HashedBytes(raw, nt.v + CHECKSUM_OFF, a)]

-----------------------------------------------------------------------------
(* Buffers the digest is computed of *)

GapLen == 2
CertLen == 3

\* byte j of the little-endian dword v
LE(v, j) == (v \div (IF j = 0 THEN 1 ELSE IF j = 1 THEN 256
                     ELSE IF j = 2 THEN 65536 ELSE 16777216)) % 256

SecDirOff(nt, is64) == nt + (IF is64 THEN SECDIR_OFF_64 ELSE SECDIR_OFF_32)

(* a PE buffer with the NtHeader at nt, the Security directory (va, size),   *)
(* len bytes long; the other bytes depend on fill.  All bytes are below 128, *)
(* so that every dword read from the buffer is below 2^31.                   *)
MkBuffer(nt, is64, va, size, len, fill) ==
    LET cta == SecDirOff(nt, is64) IN
    [k1 \in 1..len |->
        LET k == k1 - 1 IN
        IF k < 2 THEN MZ[k + 1]
        ELSE IF k >= E_LFANEW /\ k < E_LFANEW + 4 THEN LE(nt, k - E_LFANEW)
        ELSE IF k >= nt /\ k < nt + 4 THEN PE00[k - nt + 1]
        ELSE IF k = nt + MAGIC_OFF THEN 11
        ELSE IF k = nt + MAGIC_OFF + 1 THEN (IF is64 THEN 2 ELSE 1)
        ELSE IF k >= cta /\ k < cta + 4 THEN LE(va, k - cta)
        ELSE IF k >= cta + 4 /\ k < cta + 8 THEN LE(size, k - cta - 4)
        ELSE ((7 * k + 13 * fill) % 127) + 1]

DigestInputs ==
    UNION {{[nt |-> nt, is64 |-> b, va |-> va, size |-> sz, fill |-> f,
             len |-> SecDirOff(nt, b) + 8 + GapLen + CertLen + TailLen,
             pos |-> 0, val |-> 0, val2 |-> 0, patch |-> "none"] :
               va \in {0, SecDirOff(nt, b) + 8 + GapLen}, sz \in {0, CertLen},
               f \in 1..NumFill} :
           nt \in {64, 80}, b \in BOOLEAN}

PatchValues == {0, 1, 127}

InitDigest ==
    /\ mode = "exe"
    /\ pslist = <<>>
    /\ drivers = <<>>
    /\ modules = <<>>
    /\ task = 0
    /\ idx = 1
    /\ already_analyzed = EmptyCache
    /\ out = <<>>
    /\ pc = "buffer"
    /\ exc = "none"
    /\ fs = {}
    /\ ev = <<>>
    /\ lookups = <<>>
    /\ cur \in DigestInputs
    /\ raw_data = MkBuffer(cur.nt, cur.is64, cur.va, cur.size, cur.len, cur.fill)
    /\ raw_data2 = raw_data
    /\ digest = <<>>
    /\ digest2 = <<>>
    /\ CatalogIdle
    /\ PagesIdle

(* P' is P with the byte at one offset replaced *)
PatchByte ==
    /\ pc = "buffer"
    /\ \E pos \in 0..(Len(raw_data) - 1), val \in PatchValues :
          /\ raw_data2' = [raw_data EXCEPT ![pos + 1] = val]
          /\ cur' = [cur EXCEPT !.pos = pos, !.val = val, !.patch = "byte"]
    /\ pc' = "patched"
    /\ UNCHANGED <<mode, pslist, drivers, modules, task, idx, already_analyzed, out, exc,
                   fs, ev, lookups, raw_data, digest, digest2>>
    /\ UNCHANGED catalogVars
    /\ UNCHANGED pageVars

(* P' is P with all CheckSum bytes and all bytes of [va, va + size) replaced *)
PatchExcluded ==
    /\ pc = "buffer"
    /\ \E val \in PatchValues, val2 \in PatchValues :
          /\ raw_data2' =
                [k1 \in 1..Len(raw_data) |->
                    LET k == k1 - 1 IN
                    IF k >= cur.nt + CHECKSUM_OFF /\ k < cur.nt + CHECKSUM_OFF + 4 THEN val
                    ELSE IF cur.va # 0 /\ cur.size # 0
                            /\ k >= cur.va /\ k < cur.va + cur.size THEN val2
                    ELSE raw_data[k1]]
          /\ cur' = [cur EXCEPT !.val = val, !.val2 = val2, !.patch = "excluded"]
    /\ pc' = "patched"
    /\ UNCHANGED <<mode, pslist, drivers, modules, task, idx, already_analyzed, out, exc,
                   fs, ev, lookups, raw_data, digest, digest2>>
    /\ UNCHANGED catalogVars
    /\ UNCHANGED pageVars

(* calculate_pe_digest of P and of P' with the same algorithm *)
HashBoth ==
    /\ pc = "patched"
    /\ \E algorithm \in {"md5", "sha1", "sha256"} :
          /\ digest' = calculate_pe_digest(algorithm, raw_data)
          /\ digest2' = calculate_pe_digest(algorithm, raw_data2)
    /\ pc' = "hashed"
    /\ UNCHANGED <<mode, pslist, drivers, modules, task, idx, already_analyzed, out, exc,
                   fs, cur, ev, lookups, raw_data, raw_data2>>
    /\ UNCHANGED catalogVars
    /\ UNCHANGED pageVars

NextDigest == PatchByte \/ PatchExcluded \/ HashBoth

SpecDigest == InitDigest /\ [][NextDigest]_vars

-----------------------------------------------------------------------------
(* Catalog lookup.  CERTIFICATE_REGEX is the byte pattern                    *)
(*   \x30.\x30.\x06.(?P<oid_algorithm>.{5,9})\x05\x00\x04(?P<hash_size>.)    *)
(* in which `.` is any byte but \n.  Offsets count from 0.                   *)

NEWLINE == 10

\* the byte at offset k of data is b
ByteAt(data, k, b) == k < Len(data) /\ data[k + 1] = b

\* `.` matches at offset k of data
DotAt(data, k) == k < Len(data) /\ data[k + 1] # NEWLINE

\* the pattern matches at offset p with an oid_algorithm of n bytes
MatchesWith(data, p, n) ==
    /\ ByteAt(data, p, 48) /\ DotAt(data, p + 1)
    /\ ByteAt(data, p + 2, 48) /\ DotAt(data, p + 3)
    /\ ByteAt(data, p + 4, 6) /\ DotAt(data, p + 5)
    /\ \A j \in 0..(n - 1) : DotAt(data, p + 6 + j)
    /\ ByteAt(data, p + 6 + n, 5)
    /\ ByteAt(data, p + 7 + n, 0)
    /\ ByteAt(data, p + 8 + n, 4)
    /\ DotAt(data, p + 9 + n)

(* match.end() of the match that starts at offset p, 0 when there is none;   *)
(* .{5,9} is greedy: the longest oid_algorithm that lets the rest match      *)
MatchEnd(data, p) ==
    IF ~ByteAt(data, p, 48) THEN 0
    ELSE LET ns == {n \in 5..9 : MatchesWith(data, p, n)} IN
         IF ns = {} THEN 0
         ELSE p + 10 + (CHOOSE n \in ns : \A m \in ns : m <= n)

(* `for match in CERTIFICATE_REGEX.finditer(data)` from offset p on: TRUE    *)
(* when the hash_digest of some match equals digest_; the search for the     *)
(* next match starts where the last one ended                                *)
RECURSIVE ScanFrom(_, _, _)
ScanFrom(data, p, digest_) ==
    IF p >= Len(data) THEN FALSE
    ELSE LET where == MatchEnd(data, p) IN
         IF where = 0 THEN ScanFrom(data, p + 1, digest_)
         ELSE LET hash_size == data[where]
                  hash_digest == Slice(data, where, where + hash_size)
              IN
              IF digest_ = hash_digest THEN TRUE ELSE ScanFrom(data, where, digest_)

(* get_files_by_extension(path, '.cat'): walk is the order in which os.walk  *)
(* lists the files under the directory                                       *)
get_files_by_extension(cat, walk, extension) ==
    IF cat.isdir THEN SelectSeq(walk, LAMBDA f : f.ext = extension) ELSE <<>>

\* a loop over the files that reads the first file only
FirstFileOnly(files, i, digest_) ==
    i <= Len(files) /\ ScanFrom(files[i].data, 0, digest_)

\* `for file in files` of is_in_catalog from file i on
RECURSIVE ForFileInFiles(_, _, _)
ForFileInFiles(files, i, digest_) ==
    IF i > Len(files) THEN FALSE
    ELSE IF ScanFrom(files[i].data, 0, digest_) THEN TRUE
    ELSE ForFileInFiles(files, i + 1, digest_)

\* is_in_catalog
is_in_catalog(cat, walk, digest_) ==
    LET files == get_files_by_extension(cat, walk, ".cat") IN
    IF files # <<>> THEN ForFileInFiles(files, 1, digest_) ELSE FALSE

-----------------------------------------------------------------------------
(* Catalog directories the lookup is run on *)

MaxCatFiles == 2
MaxEntries == 2
MaxCalls == 2

OID_md5_bytes == <<42, 134, 72, 134, 247, 13, 2, 5>>
OID_sha1_bytes == <<43, 14, 3, 2, 26>>
OID_sha256_bytes == <<96, 134, 72, 1, 101, 3, 4, 2, 1>>

\* the digests listed in catalog files (two bytes long, to keep the files short)
CatDigests == {<<1, 2>>, <<2, 1>>}

\* the digests asked for: those, a shorter and a longer one
AskedDigests == CatDigests \cup {<<1>>, <<1, 2, 1>>}

\* DigestInfo of entry k of a file: the algorithm varies with k
CatEntry(k, dg) ==
    LET oid == IF k % 3 = 1 THEN OID_sha1_bytes
               ELSE IF k % 3 = 2 THEN OID_sha256_bytes ELSE OID_md5_bytes
    IN <<48, Len(oid) + Len(dg) + 8, 48, Len(oid) + 4, 6, Len(oid)>> \o oid
       \o <<5, 0, 4, Len(dg)>> \o dg

RECURSIVE CatEntriesFrom(_, _)
CatEntriesFrom(es, k) ==
    IF k > Len(es) THEN <<>> ELSE CatEntry(k, es[k]) \o <<49, 0>> \o CatEntriesFrom(es, k + 1)

(* a file with the extension ext that lists the digests es; with cut the     *)
(* file ends one byte before the end of its last digest.  entries are the    *)
(* digests the pattern collects from the file.                               *)
MkCatFile(ext, es, cut) ==
    LET whole == <<48, 130>> \o CatEntriesFrom(es, 1)
        n == Len(es)
    IN
    IF cut
    THEN [ext |-> ext,
          entries |-> [k \in 1..n |-> IF k = n THEN SubSeq(es[n], 1, Len(es[n]) - 1)
                                      ELSE es[k]],
          data |-> SubSeq(whole, 1, Len(whole) - 3)]
    ELSE [ext |-> ext, entries |-> es, data |-> whole]

CatFiles ==
    {MkCatFile(".cat", es, FALSE) : es \in SeqsUpTo(CatDigests, MaxEntries)}
    \cup {MkCatFile(".cat", <<dg>>, TRUE) : dg \in CatDigests}
    \cup {MkCatFile(".txt", <<<<1, 2>>>>, FALSE), MkCatFile(".CAT", <<<<2, 1>>>>, FALSE)}

\* the subsets of S with at most n elements
RECURSIVE SubsetsUpTo(_, _)
SubsetsUpTo(S, n) ==
    IF n = 0 THEN {{}}
    ELSE LET r == SubsetsUpTo(S, n - 1) IN r \cup {x \cup {a} : x \in r, a \in S}

Catalogs ==
    {[isdir |-> FALSE, files |-> {}]}
    \cup {[isdir |-> TRUE, files |-> fl] : fl \in SubsetsUpTo(CatFiles, MaxCatFiles)}

\* the orders in which the files of a directory can be listed
Walks(fl) ==
    {w \in [1..Cardinality(fl) -> fl] : \A i, j \in DOMAIN w : i # j => w[i] # w[j]}

InitCatalog ==
    /\ mode = "exe"
    /\ pslist = <<>>
    /\ drivers = <<>>
    /\ modules = <<>>
    /\ task = 0
    /\ idx = 1
    /\ already_analyzed = EmptyCache
    /\ out = <<>>
    /\ pc = "catalog"
    /\ exc = "none"
    /\ fs = {}
    /\ cur = NoInput
    /\ ev = <<>>
    /\ lookups = <<>>
    /\ raw_data = <<>>
    /\ raw_data2 = <<>>
    /\ digest = <<>>
    /\ digest2 = <<>>
    /\ catalog \in Catalogs
    /\ found = <<>>
    /\ PagesIdle

(* one call of is_in_catalog: the digest asked for and the order in which    *)
(* the directory is listed are those of the call                             *)
Lookup ==
    /\ pc = "catalog"
    /\ Len(found) < MaxCalls
    /\ \E digest_ \in AskedDigests, walk \in Walks(catalog.files) :
          found' = Append(found, [digest |-> digest_,
                                  answer |-> is_in_catalog(catalog, walk, digest_)])
    /\ UNCHANGED orchVars
    /\ UNCHANGED digestVars
    /\ UNCHANGED catalog
    /\ UNCHANGED pageVars

NextCatalog == Lookup

SpecCatalog == InitCatalog /\ [][NextCatalog]_vars

-----------------------------------------------------------------------------
(* Page assembly: read_file_memory.  A span of file_object['present'] is     *)
(* [mem, off, count, readable]: mem = [hi, lo] is the memory offset (hi the  *)
(* bits above the low 32), off the offset in the file, count the number of   *)
(* bytes, and readable tells whether addr_space.base.read returns data.      *)

MaxPages == 3
PageLen == 2

\* mdata[0] &= 0xffffffff
Mask32(mem) == mem.lo

\* the byte of the memory image at physical offset a (never zero)
MemByte(a) == (a % 7) + 1

\* self.addr_space.base.read(addr, length); None is the empty sequence here
base_read(span) ==
    IF span.readable
    THEN [k \in 1..span.count |-> MemByte(Mask32(span.mem) + k - 1)]
    ELSE <<>>

\* BytesIO.seek
seek(o, pos) == [o EXCEPT !.pos = pos]

(* BytesIO.write: a write that starts behind the end of the buffer fills the *)
(* gap with zero bytes                                                       *)
write(o, b) ==
    LET last == Max(Len(o.buf), o.pos + Len(b)) IN
    [buf |-> [k \in 1..last |->
                 IF k > o.pos /\ k <= o.pos + Len(b) THEN b[k - o.pos]
                 ELSE IF k <= Len(o.buf) THEN o.buf[k]
                 ELSE 0],
     pos |-> o.pos + Len(b)]

\* BytesIO.getvalue
getvalue(o) == o.buf

\* if rdata: of.write(rdata)
WriteIfRead(o, span, rdata) ==
    IF rdata # <<>> THEN write(o, rdata) ELSE o

\* `for mdata in file_object['present']` from span i on
RECURSIVE ReadSpans(_, _, _)
ReadSpans(present, i, o) ==
    IF i > Len(present) THEN o
    ELSE LET rdata == base_read(present[i]) IN
         ReadSpans(present, i + 1, WriteIfRead(seek(o, present[i].off), present[i], rdata))

\* read_file_memory
read_file_memory(fo) == getvalue(ReadSpans(fo.present, 1, EmptyBytesIO))

-----------------------------------------------------------------------------
(* File objects whose pages are read.  A file of n pages; each page is       *)
(* resident and readable ("read"), resident but not readable in the memory   *)
(* image ("unreadable"), or not resident ("missing", listed in pad).         *)

PageStatus == {"read", "unreadable", "missing"}

\* the span of a resident page; DumpFiles sets bits above the low 32 on some
MkSpan(page, readable) ==
    [mem |-> [hi |-> IF page % 2 = 1 THEN 8192 ELSE 0, lo |-> 4096 * (page + 1)],
     off |-> page * PageLen, count |-> PageLen, readable |-> readable]

\* the resident pages, listed in the order w
MkSnapshot(t, st, w) ==
    [name |-> "\\Device\\HarddiskVolume1\\Windows\\notepad.exe",
     type |-> t,
     present |-> [i \in DOMAIN w |-> MkSpan(w[i], st[w[i]] = "read")],
     pad |-> {page * PageLen : page \in {q \in DOMAIN st : st[q] = "missing"}}]

Snapshots ==
    UNION {UNION {{MkSnapshot(t, st, w) :
                      t \in {"ImageSectionObject", "DataSectionObject"},
                      w \in Walks({q \in DOMAIN st : st[q] # "missing"})} :
                  st \in [0..(n - 1) -> PageStatus]} :
           n \in 0..MaxPages}

InitPages ==
    /\ mode = "exe"
    /\ pslist = <<>>
    /\ drivers = <<>>
    /\ modules = <<>>
    /\ task = 0
    /\ idx = 1
    /\ already_analyzed = EmptyCache
    /\ out = <<>>
    /\ pc = "dump"
    /\ exc = "none"
    /\ fs = {}
    /\ cur = NoInput
    /\ ev = <<>>
    /\ lookups = <<>>
    /\ raw_data = <<>>
    /\ raw_data2 = <<>>
    /\ digest = <<>>
    /\ digest2 = <<>>
    /\ CatalogIdle
    /\ snapshot \in Snapshots
    /\ is_complete = FALSE
    /\ of = EmptyBytesIO
    /\ assembled = <<"none">>

(* is_complete, file_object = self.get_file_object(module_path) for a module *)
(* whose file object DumpFiles describes by snapshot; without resident pages *)
(* there is no file object and validate_partial_file reads nothing           *)
ExtractObject ==
    /\ pc = "dump"
    /\ LET r == extract_object(<<DumpFile(snapshot.name, snapshot.type,
                                          snapshot.present # <<>>, snapshot.pad # {})>>)
       IN /\ is_complete' = r.is_complete
          /\ pc' = IF r.file_object = NoFileObject THEN "done" ELSE "routed"
    /\ ev' = <<Ev("get_file_object", 0, "")>>
    /\ UNCHANGED <<mode, pslist, drivers, modules, task, idx, already_analyzed, out, exc,
                   fs, cur, lookups>>
    /\ UNCHANGED digestVars
    /\ UNCHANGED catalogVars
    /\ UNCHANGED <<snapshot, of, assembled>>

(* validate_file when is_complete, validate_partial_file otherwise: both     *)
(* start with content = self.read_file_memory(file_object)                   *)
ReadFileMemory ==
    /\ pc = "routed"
    /\ of' = ReadSpans(snapshot.present, 1, EmptyBytesIO)
    /\ assembled' = read_file_memory(snapshot)
    /\ ev' = ev \o <<Ev(IF is_complete THEN "validate_file" ELSE "validate_partial_file",
                        0, ""),
                     Ev("read_file_memory", 0, "")>>
    /\ pc' = "assembled"
    /\ UNCHANGED <<mode, pslist, drivers, modules, task, idx, already_analyzed, out, exc,
                   fs, cur, lookups>>
    /\ UNCHANGED digestVars
    /\ UNCHANGED catalogVars
    /\ UNCHANGED <<snapshot, is_complete>>

NextPages == ExtractObject \/ ReadFileMemory

SpecPages == InitPages /\ [][NextPages]_vars

-----------------------------------------------------------------------------
(* Properties *)

\* calculate has ended, by returning or by an exception
Ended == pc \in {"done", "raised"}

\* the result of the last triple yielded
LastResult == out[Len(out)].result

\* the module analysed last found a fully resident file object of this kind
FullyResident(kind) ==
    /\ lookups # <<>>
    /\ cur.match
    /\ Len(cur.dump) = 1
    /\ cur.dump[1].type = kind
    /\ cur.dump[1].present
    /\ ~cur.dump[1].pad

\* a call of this name was made while the last module was handled
Called(op) == \E k \in 1..Len(ev) : ev[k].op = op

(* C1: for every module list and every outcome of the lookups, reads, PE     *)
(* parsing, digest parsing and CMS verification, calculate yields exactly    *)
(* one triple per module and no exception leaves calculate.                  *)
C1_OneTriplePerModuleNoException ==
    Ended => (exc = "none" /\ Len(out) = Len(modules))

(* C2: the result of every triple yielded is a member of the ReturnCode      *)
(* enumeration, on every path, those that run the CMS verifier included.     *)
C2_ResultsAreReturnCodes ==
    \A i \in 1..Len(out) :
        out[i].result.tag = "ReturnCode" /\ out[i].result.text \in ReturnCode

\* the first module of the list with the path of module i
FirstIndex(i) ==
    CHOOSE j \in 1..i :
        /\ modules[j].path = modules[i].path
        /\ \A k \in 1..(j - 1) : modules[k].path # modules[i].path

C3_State ==
    /\ \A i \in 1..Len(out) :
          modules[i].path # "" => out[i].result = out[FirstIndex(i)].result
    /\ \A a, b \in 1..Len(lookups) : a # b => lookups[a] # lookups[b]

C3_Step ==
    /\ \A p \in DOMAIN already_analyzed :
          p \in DOMAIN already_analyzed' /\ already_analyzed'[p] = already_analyzed[p]
    /\ (pc = "loop" /\ idx <= Len(modules)
        /\ modules[idx].path \in DOMAIN already_analyzed)
       => /\ lookups' = lookups
          /\ ev' = <<>>
          /\ out' = Append(out, [name |-> modules[idx].name, pid |-> modules[idx].pid,
                                 result |-> already_analyzed[modules[idx].path]])

(* C3: cache idempotence: every later occurrence of a module path already    *)
(* analysed yields the result of its first occurrence, taken from            *)
(* already_analyzed without another file-object lookup or validation (no     *)
(* path is looked up twice), and a cache entry, once written, never changes. *)
C3_CacheIdempotence == [](C3_State) /\ [][C3_Step]_vars

\* a verifier string was computed once and then served from the cache
C3_Witness ==
    /\ pc = "loop"
    /\ Len(out) = 2
    /\ cur = NoInput
    /\ modules[1].path # ""
    /\ modules[1].path = modules[2].path
    /\ out[1].result.tag = "str"
    /\ out[2].result = out[1].result
    /\ Len(lookups) = 1

(* C4: the triples are yielded in the enumeration order of the modules: the  *)
(* i-th triple carries the pid of the i-th module, its name when the module  *)
(* has a path, and the result recorded for its path, computed or cached.     *)
C4_OrderPreserved ==
    /\ Len(out) <= Len(modules)
    /\ pc = "loop" => Len(out) = idx - 1
    /\ \A i \in 1..Len(out) :
          /\ out[i].pid = modules[i].pid
          /\ modules[i].path # "" =>
                /\ out[i].name = modules[i].name
                /\ out[i].result = already_analyzed[modules[i].path]

\* two processes, the second served from the cache, both yielded
C4_Witness ==
    /\ pc = "done"
    /\ Len(out) = 2
    /\ modules[1].pid # modules[2].pid
    /\ modules[1].path # ""
    /\ modules[1].path = modules[2].path
    /\ lookups = <<modules[1].path>>

(* C5: after calculate has ended, normally or through an error, every file   *)
(* created for the analysis is removed: the three files made at construction *)
(* and any file written while the CMS verifier ran.                          *)
C5_TempFilesRemoved == Ended => fs = {}

(* C6: every enumerated process whose PEB cannot be read yields a triple     *)
(* with its own name and pid and with NOT_PEB, or ALREADY_TERMINATED when    *)
(* that process has an exit time.                                            *)
C6_NoPebYieldsTriple ==
    (pc = "done" /\ mode # "sys") =>
        \A t \in 1..Len(pslist) :
            ~pslist[t].Peb =>
                \E i \in 1..Len(out) :
                    /\ out[i].pid = pslist[t].UniqueProcessId
                    /\ out[i].name = pslist[t].ImageFileName
                    /\ out[i].result = IF pslist[t].ExitTime
                                       THEN Code("ALREADY_TERMINATED")
                                       ELSE Code("NOT_PEB")

\* candidate i of the table is tried and its rebased buffer passes verify_checksum
Passes(bases, i) ==
    /\ ~(cur.content.is32 /\ bases[i] > MaxBase32)
    /\ cur.content.cand[i].reloc = "ok"
    /\ cur.content.cand[i].checksum_ok

\* the outcome of the last step is the outcome o of a call
SameOutcome(o) ==
    /\ exc = o.exc
    /\ o.exc = "none" => (out # <<>> /\ LastResult = o.result)

(* C7: for a fully resident ImageSectionObject: when the initial checksum    *)
(* verifies no candidate is tried; otherwise the verdict is that of          *)
(* VERIFY_PE on the first candidate, in table order, that is not skipped     *)
(* and whose rebased buffer passes verify_checksum, and PE_REBUILT_FAILED    *)
(* is returned if and only if no candidate passes.                           *)
C7_RebaserSelection ==
    (/\ FullyResident("ImageSectionObject")
     /\ cur.content.parse_ok
     /\ get_pe_type(cur.dump[1]) \in DOMAIN frequent_addresses) =>
        LET bases == frequent_addresses[get_pe_type(cur.dump[1])]
            passing == {i \in 1..Len(bases) : Passes(bases, i)}
        IN
        IF cur.content.checksum_ok
        THEN ~Called("relocate_image") /\ SameOutcome(verify_pe(0, cur.content.pe))
        ELSE IF passing = {}
        THEN exc = "none" /\ LastResult = Code("PE_REBUILT_FAILED")
        ELSE LET first == CHOOSE i \in passing : \A j \in passing : i <= j IN
             /\ SameOutcome(verify_pe(first, cur.content.pe))
             /\ ~(exc = "none" /\ out # <<>> /\ LastResult = Code("PE_REBUILT_FAILED"))
             /\ \A k \in 1..Len(ev) : ev[k].op = "relocate_image" => ev[k].buf <= first

\* VERIFY_PE ran on a buffer of the last module
VerifyStageReached ==
    \/ FullyResident("ImageSectionObject") /\ Called("verify_pe")
    \/ FullyResident("DataSectionObject") /\ cur.content.parse_ok
       /\ cur.content.checksum_ok

\* the certificate bytes yield one of md5, sha1, sha256
SupportedDigest(pe) ==
    pe.sig.pattern /\ pe.sig.oid \in {OID_md5, OID_sha1, OID_sha256}

(* C8: reached from the ImageSectionObject path, an embedded-digest mismatch *)
(* yields AUTHENTICODE_SIGNATURE_MISMATCH_OR_INCORRECT_IMAGEBASE (9) and an  *)
(* unsigned PE absent from the catalog NOT_SIGNED_OR_INCORRECT_IMAGEBASE     *)
(* (13); AUTHENTICODE_SIGNATURE_MISMATCH (10) and NOT_SIGNED (14) come from  *)
(* the DataSectionObject path only.                                          *)
C8_ImageBaseVerdicts ==
    (FullyResident("ImageSectionObject") /\ Called("verify_pe") /\ exc = "none"
     /\ out # <<>>) =>
        LET pe == cur.content.pe IN
        /\ (Truthy(extract_cert(pe)) /\ SupportedDigest(pe) /\ ~pe.digest_match)
           => ReturnCodeInt(LastResult.text) = 9
        /\ (~Truthy(extract_cert(pe)) /\ ~pe.in_catalog)
           => ReturnCodeInt(LastResult.text) = 13
        /\ LastResult \notin {Code("AUTHENTICODE_SIGNATURE_MISMATCH"), Code("NOT_SIGNED")}

(* C9: in the full-residency path, for either section kind, when the         *)
(* Security directory is nonzero and the certificate does not yield a        *)
(* supported algorithm and digest, the result is PARTIAL_CERTIFICATE, no     *)
(* digest is computed and no verifier is run.                                *)
C9_PartialCertificate ==
    (/\ VerifyStageReached
     /\ Truthy(extract_cert(cur.content.pe))
     /\ ~SupportedDigest(cur.content.pe)) =>
        /\ exc = "none"
        /\ out # <<>>
        /\ LastResult = Code("PARTIAL_CERTIFICATE")
        /\ ~Called("calculate_pe_digest")
        /\ ~Called("verify_signature")

\* offset k of P is hashed: outside CheckSum, the Security directory entry and the blob
Kept(k) ==
    LET cs == cur.nt + CHECKSUM_OFF
        sd == SecDirOff(cur.nt, cur.is64)
    IN
    /\ ~(k >= cs /\ k < cs + 4)
    /\ ~(k >= sd /\ k < sd + 8)
    /\ ~(cur.va # 0 /\ cur.size # 0 /\ k >= cur.va /\ k < cur.va + cur.size)

\* how many of the n offsets from lo on lie below k
Below(k, lo, n) == Min(Max(k - lo, 0), n)

\* the number of offsets below k that are not hashed
SkippedBelow(k) ==
    Below(k, cur.nt + CHECKSUM_OFF, 4) + Below(k, SecDirOff(cur.nt, cur.is64), 8)
    + (IF cur.va # 0 /\ cur.size # 0 THEN Below(k, cur.va, cur.size) ELSE 0)

\* data is the bytes of P at the hashed offsets, in order
IsKeptBytes(data, P) ==
    /\ Len(data) = Len(P) - SkippedBelow(Len(P))
    /\ \A k \in 0..(Len(P) - 1) : Kept(k) => data[k - SkippedBelow(k) + 1] = P[k + 1]

\* P and P' differ in CheckSum bytes and certificate blob bytes only
DifferInExcludedOnly ==
    /\ Len(raw_data2) = Len(raw_data)
    /\ \A k \in 0..(Len(raw_data) - 1) :
          raw_data2[k + 1] # raw_data[k + 1] =>
              Kept(k) = FALSE /\ ~(k >= SecDirOff(cur.nt, cur.is64)
                                   /\ k < SecDirOff(cur.nt, cur.is64) + 8)

(* C10: calculate_pe_digest hashes P[0..checksum) ++ P[checksum+4..secdir)   *)
(* ++ P[secdir+8..VA) ++ P[VA+size..] when VA and size are both nonzero and  *)
(* P[0..checksum) ++ P[checksum+4..secdir) ++ P[secdir+8..] otherwise, and   *)
(* returns the same value for P and for any P' that differs from P only in   *)
(* the CheckSum bytes and in the bytes of the certificate blob.              *)
C10_HashExclusion ==
    pc = "hashed" =>
        /\ digest.exc = "none"
        /\ IsKeptBytes(digest.data, raw_data)
        /\ DifferInExcludedOnly => digest2 = digest

\* P' differs from P in the CheckSum field and in the blob, and the digests agree
C10_Witness ==
    /\ pc = "hashed"
    /\ cur.patch = "excluded"
    /\ cur.va # 0
    /\ cur.size # 0
    /\ raw_data2[cur.nt + CHECKSUM_OFF + 1] # raw_data[cur.nt + CHECKSUM_OFF + 1]
    /\ raw_data2[cur.va + 1] # raw_data[cur.va + 1]
    /\ digest2 = digest
    /\ digest.exc = "none"

\* some entry collected from some .cat file of the directory equals d
Listed(d) ==
    /\ catalog.isdir
    /\ \E f \in catalog.files :
          f.ext = ".cat" /\ \E k \in 1..Len(f.entries) : f.entries[k] = d

C11_State ==
    /\ \A k \in 1..Len(found) : found[k].answer = Listed(found[k].digest)
    /\ \A j, k \in 1..Len(found) :
          found[j].digest = found[k].digest => found[j].answer = found[k].answer

C11_Step == catalog' = catalog /\ orchVars' = orchVars

(* C11: is_in_catalog(D) is true if and only if some digest entry collected  *)
(* by the certificate pattern from some .cat file under the catalog          *)
(* directory equals D exactly; the answer is the same on repeated calls and  *)
(* for every order in which the files are visited, and a lookup changes no   *)
(* orchestrator state.                                                       *)
C11_CatalogLookup == [](C11_State) /\ [][C11_Step]_vars

(* asked twice, a digest listed second in one of two .cat files, the other   *)
(* file listing another digest, is found both times                          *)
C11_Witness ==
    /\ Len(found) = 2
    /\ found[1].digest = found[2].digest
    /\ found[1].answer
    /\ found[2].answer
    /\ \E f, g \in catalog.files :
          /\ f # g
          /\ f.ext = ".cat"
          /\ g.ext = ".cat"
          /\ Len(f.entries) = 2
          /\ f.entries[2] = found[1].digest
          /\ f.entries[1] # found[1].digest
          /\ g.entries # <<>>
          /\ \A k \in 1..Len(g.entries) : g.entries[k] # found[1].digest

\* the buffer returned holds byte b at offset k
Holds(k, b) == k < Len(assembled) /\ assembled[k + 1] = b

(* C12: partial-page safety: for every list of spans and every set of spans  *)
(* whose read fails, the buffer read_file_memory returns holds a zero byte   *)
(* at every offset off .. off+count-1 of each failed span, wherever the span *)
(* lies (the span with the highest file offset included), and the bytes read *)
(* at the offsets of every span that was read.                               *)
C12_PartialPageSafety ==
    pc = "assembled" =>
        \A i \in 1..Len(snapshot.present) :
            LET span == snapshot.present[i] IN
            \A j \in 0..(span.count - 1) :
                IF span.readable
                THEN Holds(span.off + j, MemByte(Mask32(span.mem) + j))
                ELSE Holds(span.off + j, 0)

\* some read of a resident page failed
SomeReadFailed == \E i \in 1..Len(snapshot.present) : ~snapshot.present[i].readable

(* C13: a module is routed to validate_file only when its snapshot has no    *)
(* missing page and no page read failed; when a page is missing or a read    *)
(* of a resident page fails, it is handled by validate_partial_file.         *)
C13_FullOnlyWhenComplete ==
    pc = "assembled" =>
        /\ Called("validate_file") => (snapshot.pad = {} /\ ~SomeReadFailed)
        /\ (snapshot.pad # {} \/ SomeReadFailed) => Called("validate_partial_file")

\* the module analysed last found a file object of this kind with missing pages
PartiallyResident(kind) ==
    /\ lookups # <<>>
    /\ cur.match
    /\ ~extract_object(cur.dump).is_complete
    /\ extract_object(cur.dump).file_object.type = kind

\* the number of calls of this name made while the last module was handled
Calls(op) == Cardinality({k \in 1..Len(ev) : ev[k].op = op})

(* C14: partial residency with a nonzero Security directory: a               *)
(* DataSectionObject whose certificate bytes are present yields              *)
(* PARTIAL_CONTENT_VERIFIED (18) with the verdict of the CMS verifier        *)
(* suffixed, the verifier is run exactly once and no digest is computed; an  *)
(* ImageSectionObject yields CONTENT_SIGNED_NOT_VERIFIED (6) and the         *)
(* verifier is never run.                                                    *)
C14_PartialSigned ==
    /\ (/\ PartiallyResident("DataSectionObject")
        /\ cur.content.parse_ok
        /\ has_cert(cur.content.pe)
        /\ Truthy(extract_cert(cur.content.pe)))
       => /\ exc = "none"
          /\ out # <<>>
          /\ LastResult.tag = "str"
          /\ ReturnCodeInt(LastResult.prefix) = 18
          /\ LastResult.text \in {Capitalize(cur.content.pe.cms.stderr_tail),
                                  cur.content.pe.cms.last_line}
          /\ LastResult.text # ""
          /\ Calls("verify_signature") = 1
          /\ ~Called("calculate_pe_digest")
    /\ (/\ PartiallyResident("ImageSectionObject")
        /\ cur.content.parse_ok
        /\ has_cert(cur.content.pe))
       => /\ exc = "none"
          /\ out # <<>>
          /\ LastResult = Code("CONTENT_SIGNED_NOT_VERIFIED")
          /\ ~Called("verify_signature")

(* C15: a reconstructed buffer that pefile cannot parse (for example one     *)
(* that starts with 0x4D 0x5B) yields PARTIAL_CONTENT_PE_DATA_ERROR (4) when *)
(* the module is partially resident and PE_REBUILT_FAILED (2) when it is     *)
(* fully resident, and in neither path does the parse failure leave as an    *)
(* exception.                                                                *)
C15_ParseFailure ==
    (lookups # <<>> /\ ~cur.content.parse_ok) =>
        /\ (PartiallyResident("DataSectionObject") \/ PartiallyResident("ImageSectionObject"))
           => /\ exc = "none"
              /\ out # <<>>
              /\ LastResult = Code("PARTIAL_CONTENT_PE_DATA_ERROR")
              /\ ReturnCodeInt(LastResult.text) = 4
        /\ (FullyResident("DataSectionObject") \/ FullyResident("ImageSectionObject"))
           => /\ exc = "none"
              /\ out # <<>>
              /\ LastResult = Code("PE_REBUILT_FAILED")
              /\ ReturnCodeInt(LastResult.text) = 2

\* the module analysed last was fully resident
FullPath == FullyResident("DataSectionObject") \/ FullyResident("ImageSectionObject")

\* what verify_checksum answers on buffer b: 0 the buffer read, i the i-th rebased one
ChecksumOf(b) ==
    IF b = 0 THEN cur.content.checksum_ok ELSE cur.content.cand[b].checksum_ok

\* call k was made after a call of op on the same buffer
Preceded(k, op) ==
    \E j \in 1..(k - 1) : ev[j].op = op /\ ev[j].buf = ev[k].buf

(* C16: order of the checks in the full-residency path: the catalog is       *)
(* consulted and the CMS verifier is run only after verify_checksum has      *)
(* succeeded on the buffer being verified, the verifier only after the       *)
(* digest computed was found equal to the digest of the certificate; a fully *)
(* resident DataSectionObject whose checksum does not verify yields          *)
(* PE_CHECKSUM_MISMATCH with neither catalog lookup nor verifier run.        *)
C16_CheckOrder ==
    FullPath =>
        /\ \A k \in 1..Len(ev) :
              /\ ev[k].op = "verify_checksum" => (ev[k].arg = "ok") = ChecksumOf(ev[k].buf)
              /\ ev[k].op \in {"is_in_catalog", "verify_signature"}
                 => /\ Preceded(k, "verify_checksum")
                    /\ ChecksumOf(ev[k].buf)
              /\ ev[k].op = "verify_signature"
                 => /\ Preceded(k, "calculate_pe_digest")
                    /\ cur.content.pe.digest_match
        /\ (FullyResident("DataSectionObject") /\ cur.content.parse_ok
            /\ ~cur.content.checksum_ok)
           => /\ exc = "none"
              /\ out # <<>>
              /\ LastResult = Code("PE_CHECKSUM_MISMATCH")
              /\ ~Called("is_in_catalog")
              /\ ~Called("verify_signature")

(* the checksum of the buffer read fails, that of a rebased buffer verifies, *)
(* the digests agree and the verifier has given its verdict                  *)
C16_Witness ==
    /\ FullyResident("ImageSectionObject")
    /\ ~cur.content.checksum_ok
    /\ exc = "none"
    /\ out # <<>>
    /\ LastResult.tag = "str"
    /\ \E k \in 1..Len(ev) :
          /\ ev[k].op = "verify_signature"
          /\ ev[k].buf >= 2
          /\ ev[k - 1].op = "calculate_pe_digest"
          /\ \E j \in 1..(k - 1) : ev[j] = Ev("verify_checksum", ev[k].buf, "ok")

====
